---------------------------- MODULE Spec2Model ----------------------------
(***************************************************************************)
(* A state-machine model of worldgen's dual-graph pipeline                 *)
(* (src/src/dual_graph.rs): gen_points, poly_centroids, gen_voronoi and    *)
(* gen_dual_graph, driven the way examples/gui_tool.rs drives them.        *)
(*                                                                         *)
(* Numbers.  f64/f32 values are modelled as exact rationals [n, d] in      *)
(* lowest terms with d > 0; d = 0 is NaN (the result of 0.0 / 0.0).        *)
(* Lengths are measured in units of the sampler's epsilon (0.001), so a    *)
(* bound of 2 is the length 0.002 and epsilon itself is 1.                 *)
(*                                                                         *)
(* Indices are 0-based as in the source; At(s, i) reads a Vec.             *)
(***************************************************************************)
EXTENDS Integers, Sequences, FiniteSets, TLC

\* ------------------------------------------------------------- bounds
MaxCount == 3
MaxBound == 2
MaxLloyd == 1
MaxSeed == 3
SampleRes == 4
RetryBudget == 3

\* ------------------------------------------------------ program constants
epsilon == 1

\* ---------------------------------------------------------------- state
VARIABLES
    dims,                  \* gen_dual_graph's dims (x, y), in epsilons
    num_points,            \* gen_dual_graph's num_points
    num_lloyd_iterations,  \* gen_dual_graph's num_lloyd_iterations
    seed,                  \* the PRNG state the caller seeds before a run
    tess,                  \* which tessellator the program is linked against
    tie,                   \* how sort_unstable orders equal keys
    rng,                   \* the PRNG state (&mut R)
    pc,                    \* the position in the pipeline
    points,                \* gen_points' / gen_voronoi's points
    point,                 \* gen_points' candidate point
    resamples,             \* resamples drawn for the candidate so far
    i,                     \* gen_voronoi's i
    vor_diagram,           \* gen_voronoi's / gen_dual_graph's vor_diagram
    tess_calls,            \* calls of voronoi() so far
    centroid_calls,        \* calls of poly_centroids() so far
    region_graph,          \* gen_dual_graph's region_graph
    border_graph,          \* gen_dual_graph's border_graph
    region_node_map,       \* gen_dual_graph's region_node_map
    border_node_map,       \* gen_dual_graph's border_node_map
    walk,                  \* pass A's locals: face, curr_edge, pos, num_edges
    cursor,                \* passes B and C: the edge the iterator is at
    first                  \* the previous run's return value, if any

inputs == <<dims, num_points, num_lloyd_iterations, seed, tess, tie>>
gpvars == <<rng, points, point, resamples>>
gvvars == <<i, vor_diagram, tess_calls, centroid_calls>>
dgvars == <<region_graph, border_graph, region_node_map, border_node_map, walk, cursor>>
vars == <<inputs, gpvars, gvvars, dgvars, pc, first>>

\* ------------------------------------------------------------ Vec access
At(s, k) == s[k + 1]

SetAt(s, k, v) == [s EXCEPT ![k + 1] = v]

None == [some |-> FALSE]

Some(v) == [some |-> TRUE, val |-> v]

\* ------------------------------------------------------------ rationals
Abs(a) == IF a < 0 THEN -a ELSE a

RECURSIVE GCD(_, _)
GCD(a, b) == IF b = 0 THEN a ELSE GCD(b, a % b)

NaN == [n |-> 0, d |-> 0]

Rat(n, d) ==
    IF d = 0 THEN NaN
    ELSE LET g == GCD(Abs(n), Abs(d))
             s == IF d < 0 THEN -1 ELSE 1
         IN  [n |-> (s * n) \div g, d |-> (s * d) \div g]

IsNaN(a) == a.d = 0

RAdd(a, b) == IF IsNaN(a) \/ IsNaN(b) THEN NaN ELSE Rat(a.n * b.d + b.n * a.d, a.d * b.d)

RSub(a, b) == IF IsNaN(a) \/ IsNaN(b) THEN NaN ELSE Rat(a.n * b.d - b.n * a.d, a.d * b.d)

RMul(a, b) == IF IsNaN(a) \/ IsNaN(b) THEN NaN ELSE Rat(a.n * b.n, a.d * b.d)

\* a / k for an integer count k; 0.0 / 0 is NaN.  No caller divides a
\* non-zero sum by 0 (a count of 0 leaves the sum at 0.0).
RDivInt(a, k) == IF IsNaN(a) \/ k = 0 THEN NaN ELSE Rat(a.n, a.d * k)

RAbs(a) == [n |-> Abs(a.n), d |-> a.d]

\* every comparison with NaN is false
RLt(a, b) == ~IsNaN(a) /\ ~IsNaN(b) /\ a.n * b.d < b.n * a.d

RLe(a, b) == ~IsNaN(a) /\ ~IsNaN(b) /\ a.n * b.d <= b.n * a.d

Point(x, y) == [x |-> x, y |-> y]

\* ----------------------------------------------------------------- PRNG
\* A small deterministic generator standing for R: rand::Rng.
RngStep(s) == (5 * s + 3) % 16

\* rng.sample(Standard): the next f64 in [0, 1), as u / SampleRes.
Sample01(s) == Rat((RngStep(s) * SampleRes) \div 16, SampleRes)

\* The point drawn at lines 108-112 / 115-119 from PRNG state s.
DrawPoint(s, bounds) ==
    Point(RMul(Sample01(s), Rat(bounds[1], 1)),
          RMul(Sample01(RngStep(s)), Rat(bounds[2], 1)))

AfterDraw(s) == RngStep(RngStep(s))

\* ------------------------------------------------------------ gen_points
contains(p, pts) ==
    \E k \in 1..Len(pts) :
        /\ RLt(RAbs(RSub(p.x, pts[k].x)), Rat(epsilon, 1))
        /\ RLt(RAbs(RSub(p.y, pts[k].y)), Rat(epsilon, 1))

\* sort_unstable_by_key(|p| p.y): an insertion sort; equal keys keep their
\* order ("keep") or end up reversed ("swap"), as the implementation likes.
RECURSIVE InsertByY(_, _, _)
InsertByY(p, sorted, t) ==
    IF sorted = <<>> THEN <<p>>
    ELSE LET last == sorted[Len(sorted)]
             before == \/ RLt(p.y, last.y)
                       \/ (t = "swap" /\ p.y = last.y)
         IN  IF before
             THEN Append(InsertByY(p, SubSeq(sorted, 1, Len(sorted) - 1), t), last)
             ELSE Append(sorted, p)

RECURSIVE SortByY(_, _)
SortByY(pts, t) ==
    IF pts = <<>> THEN <<>>
    ELSE InsertByY(pts[Len(pts)], SortByY(SubSeq(pts, 1, Len(pts) - 1), t), t)

\* NudgeLast with the index slipped: the second-last point is raised.
NudgeLast_secondlast(pts) ==
    IF Len(pts) >= 2
    THEN LET last == Len(pts) - 1
             secondlast == Len(pts) - 2
             biggest == At(pts, last).y
             maybe_also_biggest == At(pts, secondlast).y
         IN  IF RLt(RSub(biggest, maybe_also_biggest), Rat(epsilon, 1))
             THEN SetAt(pts, secondlast,
                        Point(At(pts, secondlast).x, RAdd(biggest, Rat(epsilon, 1))))
             ELSE pts
    ELSE pts

\* Lines 126-136: the upward nudge of the last point.
NudgeLast(pts) ==
    IF Len(pts) >= 2
    THEN LET last == Len(pts) - 1
             secondlast == Len(pts) - 2
             biggest == At(pts, last).y
             maybe_also_biggest == At(pts, secondlast).y
         IN  IF RLt(RSub(biggest, maybe_also_biggest), Rat(epsilon, 1))
             THEN SetAt(pts, last, Point(At(pts, last).x, RAdd(biggest, Rat(epsilon, 1))))
             ELSE pts
    ELSE pts

\* ------------------------------------------------------------ tessellator
\* voronoi(&points, boxsize) is an external collaborator.  It is modelled
\* by families of well-formed DCELs whose vertex coordinates are computed
\* from the sites: one bounded face per site, the unbounded face last, and
\* a dead halfedge left in the halfedge array, as clipping leaves them.
Vertex(x, y) == [coordinates |-> Point(x, y)]

HalfEdge(origin, next, face, alive) ==
    [origin |-> origin, next |-> next, face |-> face, alive |-> alive]

Face(outer_component) == [outer_component |-> outer_component]

EmptyDCEL == [vertices |-> <<>>, halfedges |-> <<>>, faces |-> <<Face(0)>>]

\* n horizontal strips across the box: the Voronoi diagram of sites stacked
\* on a vertical line.  Vertex 2k is the left end of level k, 2k+1 the right.
StripLevel(pts, box, k) ==
    IF k = 0 THEN Rat(0, 1)
    ELSE IF k = Len(pts) THEN Rat(box, 1)
    ELSE RDivInt(RAdd(pts[k].y, pts[k + 1].y), 2)

StripDCEL(pts, box) ==
    LET n == Len(pts)
        inner == [h \in 1..(4 * n) |->
                    LET f == (h - 1) \div 4
                        j == (h - 1) % 4
                        o == CASE j = 0 -> 2 * f
                               [] j = 1 -> 2 * f + 1
                               [] j = 2 -> 2 * f + 3
                               [] OTHER -> 2 * f + 2
                    IN  HalfEdge(o, 4 * f + ((j + 1) % 4), f, TRUE)]
        outer == [m \in 1..(2 * n + 2) |->
                    LET k == m - 1
                        o == IF k <= n THEN 2 * k ELSE 2 * (2 * n + 1 - k) + 1
                    IN  HalfEdge(o, 4 * n + ((k + 1) % (2 * n + 2)), n, TRUE)]
        dead == <<HalfEdge(0, 6 * n + 2, 0, FALSE)>>
    IN  [vertices |-> [v \in 1..(2 * n + 2) |->
                         Vertex(IF (v - 1) % 2 = 0 THEN Rat(0, 1) ELSE Rat(box, 1),
                                StripLevel(pts, box, (v - 1) \div 2))],
         halfedges |-> inner \o outer \o dead,
         faces |-> [f \in 1..(n + 1) |->
                      IF f <= n THEN Face(4 * (f - 1) + ((f - 1) % 4)) ELSE Face(4 * n)]]

\* n triangles around one interior vertex (vertex 0, the mean of the
\* sites); vertex j >= 1 is a corner of the box.  For n >= 3 any two faces
\* share at most one segment, as Voronoi cells do.  For n < 3 the rings are
\* still closed but two faces share several segments (n = 2) or a face
\* meets itself (n = 1): not a Voronoi diagram.
Corner(m, box) ==
    CASE m % 4 = 0 -> Point(Rat(0, 1), Rat(0, 1))
      [] m % 4 = 1 -> Point(Rat(box, 1), Rat(0, 1))
      [] m % 4 = 2 -> Point(Rat(box, 1), Rat(box, 1))
      [] OTHER -> Point(Rat(0, 1), Rat(box, 1))

RECURSIVE SumPoints(_)
SumPoints(pts) ==
    IF pts = <<>> THEN Point(Rat(0, 1), Rat(0, 1))
    ELSE LET rest == SumPoints(SubSeq(pts, 1, Len(pts) - 1))
             p == pts[Len(pts)]
         IN  Point(RAdd(rest.x, p.x), RAdd(rest.y, p.y))

FanDCEL(pts, box) ==
    LET n == Len(pts)
        sum == SumPoints(pts)
        inner == [h \in 1..(3 * n) |->
                    LET f == (h - 1) \div 3
                        j == (h - 1) % 3
                        o == CASE j = 0 -> 0
                               [] j = 1 -> 1 + f
                               [] OTHER -> 1 + ((f + 1) % n)
                    IN  HalfEdge(o, 3 * f + ((j + 1) % 3), f, TRUE)]
        outer == [m \in 1..n |->
                    HalfEdge(1 + ((n - (m - 1)) % n), 3 * n + (m % n), n, TRUE)]
        dead == <<HalfEdge(0, 4 * n, 0, FALSE)>>
    IN  [vertices |-> [v \in 1..(n + 1) |->
                         IF v = 1
                         THEN Vertex(RDivInt(sum.x, n), RDivInt(sum.y, n))
                         ELSE Vertex(Corner(v - 2, box).x, Corner(v - 2, box).y)],
         halfedges |-> inner \o outer \o dead,
         faces |-> [f \in 1..(n + 1) |->
                      IF f <= n THEN Face(3 * (f - 1) + ((f - 1) % 3)) ELSE Face(3 * n)]]

\* The tessellators a run may be linked against.  "strip" and "fan" return
\* planar subdivisions with convex cells; "ring" returns any closed-ring
\* DCEL of the fan family, also the ones no Voronoi diagram has.
voronoi(pts, box, t) ==
    IF Len(pts) = 0 THEN EmptyDCEL
    ELSE IF t = "ring" \/ (t = "fan" /\ Len(pts) >= 3) THEN FanDCEL(pts, box)
    ELSE StripDCEL(pts, box)

\* -------------------------------------------------------- poly_centroids
\* Lines 63-74: the sums and counts after the first k halfedges.
RECURSIVE SumHalfedges(_, _)
SumHalfedges(diagram, k) ==
    IF k = 0
    THEN [face_centroids |-> [f \in 1..Len(diagram.faces) |-> Point(Rat(0, 1), Rat(0, 1))],
          num_face_vertices |-> [f \in 1..Len(diagram.faces) |-> 0]]
    ELSE LET acc == SumHalfedges(diagram, k - 1)
             edge == At(diagram.halfedges, k - 1)
         IN  IF ~edge.alive THEN acc
             ELSE LET pt == At(diagram.vertices, edge.origin).coordinates
                      face_pt == At(acc.face_centroids, edge.face)
                  IN  [face_centroids |->
                         SetAt(acc.face_centroids, edge.face,
                               Point(RAdd(face_pt.x, pt.x), RAdd(face_pt.y, pt.y))),
                       num_face_vertices |->
                         SetAt(acc.num_face_vertices, edge.face,
                               At(acc.num_face_vertices, edge.face) + 1)]

poly_centroids(diagram) ==
    LET acc == SumHalfedges(diagram, Len(diagram.halfedges))
        divided == [f \in 1..Len(diagram.faces) |->
                      Point(RDivInt(acc.face_centroids[f].x, acc.num_face_vertices[f]),
                            RDivInt(acc.face_centroids[f].y, acc.num_face_vertices[f]))]
    IN  SubSeq(divided, 1, Len(divided) - 1)

\* -------------------------------------------------------------- petgraph
NewGraph == [nodes |-> <<>>, edges |-> <<>>]

node_count(g) == Len(g.nodes)

edge_count(g) == Len(g.edges)

add_node(g, w) == [g EXCEPT !.nodes = Append(@, w)]

add_edge(g, a, b, w) ==
    [g EXCEPT !.edges = Append(@, [source |-> a, target |-> b, weight |-> w])]

SetMax(S) == CHOOSE m \in S : \A k \in S : k <= m

\* find_edge_undirected(a, b): a's outgoing edges, newest first, then a's
\* incoming edges, newest first.
find_edge_undirected(g, a, b) ==
    LET out == {e \in 0..(edge_count(g) - 1) :
                  At(g.edges, e).source = a /\ At(g.edges, e).target = b}
        inc == {e \in 0..(edge_count(g) - 1) :
                  At(g.edges, e).target = a /\ At(g.edges, e).source = b}
    IN  IF out # {} THEN Some(SetMax(out))
        ELSE IF inc # {} THEN Some(SetMax(inc))
        ELSE None

\* ----------------------------------------------------------- HashMap
\* A HashMap is its table and the RandomState it was created with.
HashStates == {0, 1}

NewHashMap(h) == [state |-> h, tbl |-> <<>>]

NoMap == [state |-> 0, tbl |-> <<>>]

map_get(m, k) == IF k \in DOMAIN m.tbl THEN Some(m.tbl[k]) ELSE None

map_insert(m, k, v) ==
    [m EXCEPT !.tbl = [x \in (DOMAIN m.tbl) \cup {k} |-> IF x = k THEN v ELSE m.tbl[x]]]

\* ------------------------------------------------- gen_dual_graph helpers
Origin == Point(Rat(0, 1), Rat(0, 1))

get_or_insert_border_node(map, graph, diagram, idx) ==
    LET found == map_get(map, idx)
    IN  IF found.some
        THEN [map |-> map, graph |-> graph, idx |-> found.val]
        ELSE LET pos == At(diagram.vertices, idx).coordinates
                 border_node == node_count(graph)
             IN  [map |-> map_insert(map, idx, border_node),
                  graph |-> add_node(graph, [regions |-> <<>>, pos |-> pos]),
                  idx |-> border_node]

get_or_insert_region_node(map, graph, pos, idx) ==
    LET found == map_get(map, idx)
    IN  IF found.some
        THEN [map |-> map, graph |-> graph, idx |-> found.val]
        ELSE LET region_node == node_count(graph)
             IN  [map |-> map_insert(map, idx, region_node),
                  graph |-> add_node(graph, [borders |-> <<>>, pos |-> pos]),
                  idx |-> region_node]

\* FaceAt, had the faces been kept in a HashMap and visited in its order.
FaceAt_hash_order(k) == (k + region_node_map.state) % (Len(vor_diagram.faces) - 1)

\* The k-th face pass A visits: faces.iter().take(len - 1).enumerate().
FaceAt(k) == k

NumBoundedFaces(diagram) == Len(diagram.faces) - 1

\* border_edge_for without the lookup: every visit adds an edge.
border_edge_for_always_add(graph, border_idx, next_idx) ==
    [graph |-> add_edge(graph, border_idx, next_idx,
                        [region_edge |-> None, regions |-> <<>>]),
     idx |-> edge_count(graph)]

\* Lines 361-373: the border edge between two border nodes, found or added.
border_edge_for(graph, border_idx, next_idx) ==
    LET found == find_edge_undirected(graph, border_idx, next_idx)
    IN  IF found.some
        THEN [graph |-> graph, idx |-> found.val]
        ELSE [graph |-> add_edge(graph, border_idx, next_idx,
                                 [region_edge |-> None, regions |-> <<>>]),
              idx |-> edge_count(graph)]

\* region_pos dividing by the number of vertices of an open path.
region_pos_plus_one(pos, num_edges) ==
    Point(RDivInt(pos.x, num_edges + 1), RDivInt(pos.y, num_edges + 1))

\* Line 386: region_node.pos = pos / num_edges.
region_pos(pos, num_edges) ==
    Point(RDivInt(pos.x, num_edges), RDivInt(pos.y, num_edges))

\* walk_step appending the border node of the halfedge the turn started
\* at (prev_edge) in place of the one it advanced to.
walk_step_push_prev(w, diagram, rg, bg, bmap) ==
    LET face == At(diagram.faces, FaceAt(w.face))
        prev_edge == w.curr_edge
        curr_edge == At(diagram.halfedges, prev_edge).next
        b1 == get_or_insert_border_node(bmap, bg, diagram,
                                        At(diagram.halfedges, curr_edge).origin)
        border_idx == b1.idx
        b2 == get_or_insert_border_node(b1.map, b1.graph, diagram,
                                        At(diagram.halfedges, prev_edge).origin)
        next_idx == b2.idx
        rg1 == [rg EXCEPT !.nodes[w.region_node_idx + 1].borders = Append(@, next_idx)]
        e == border_edge_for(b2.graph, border_idx, next_idx)
        bg1 == [e.graph EXCEPT !.edges[e.idx + 1].weight.regions =
                                   Append(@, w.region_node_idx)]
        num_edges == w.num_edges + 1
        vertex_pos == At(diagram.vertices, At(diagram.halfedges, curr_edge).origin).coordinates
        pos == Point(RAdd(w.pos.x, vertex_pos.x), RAdd(w.pos.y, vertex_pos.y))
        closed == curr_edge = face.outer_component
    IN  [closed |-> closed,
         walk |-> [w EXCEPT !.curr_edge = curr_edge, !.pos = pos, !.num_edges = num_edges],
         region_graph |->
             IF closed
             THEN [rg1 EXCEPT !.nodes[w.region_node_idx + 1].pos = region_pos(pos, num_edges)]
             ELSE rg1,
         border_graph |-> bg1,
         border_node_map |-> b2.map]

\* Lines 346-386: one turn of pass A's loop from the locals w, and the
\* assignment of pos when the ring closes.
walk_step(w, diagram, rg, bg, bmap) ==
    LET face == At(diagram.faces, FaceAt(w.face))
        prev_edge == w.curr_edge
        curr_edge == At(diagram.halfedges, prev_edge).next
        b1 == get_or_insert_border_node(bmap, bg, diagram,
                                        At(diagram.halfedges, curr_edge).origin)
        border_idx == b1.idx
        rg1 == [rg EXCEPT !.nodes[w.region_node_idx + 1].borders = Append(@, border_idx)]
        b2 == get_or_insert_border_node(b1.map, b1.graph, diagram,
                                        At(diagram.halfedges, prev_edge).origin)
        next_idx == b2.idx
        e == border_edge_for(b2.graph, border_idx, next_idx)
        bg1 == [e.graph EXCEPT !.edges[e.idx + 1].weight.regions =
                                   Append(@, w.region_node_idx)]
        num_edges == w.num_edges + 1
        vertex_pos == At(diagram.vertices, At(diagram.halfedges, curr_edge).origin).coordinates
        pos == Point(RAdd(w.pos.x, vertex_pos.x), RAdd(w.pos.y, vertex_pos.y))
        closed == curr_edge = face.outer_component
    IN  [closed |-> closed,
         walk |-> [w EXCEPT !.curr_edge = curr_edge, !.pos = pos, !.num_edges = num_edges],
         region_graph |->
             IF closed
             THEN [rg1 EXCEPT !.nodes[w.region_node_idx + 1].pos = region_pos(pos, num_edges)]
             ELSE rg1,
         border_graph |-> bg1,
         border_node_map |-> b2.map]

\* region_edge_for with the interior test off by one: no edge qualifies.
region_edge_for_gt2(rg, bg, e) ==
    LET regions == At(bg.edges, e).weight.regions
    IN  [panic |-> Len(regions) > 2, graph |-> rg]

\* Lines 390-408: pass B's body for border edge e.  "panic" is the assert.
region_edge_for(rg, bg, e) ==
    LET edge == At(bg.edges, e)
        regions == edge.weight.regions
    IN  IF Len(regions) > 1
        THEN IF Len(regions) # 2 THEN [panic |-> TRUE, graph |-> rg]
             ELSE LET region_a == At(regions, 0)
                      region_b == At(regions, 1)
                  IN  IF ~find_edge_undirected(rg, region_a, region_b).some
                      THEN [panic |-> FALSE,
                            graph |-> add_edge(rg, region_a, region_b,
                                        [border_edge |-> Some(e),
                                         borders |-> <<edge.source, edge.target>>])]
                      ELSE [panic |-> FALSE, graph |-> rg]
        ELSE [panic |-> FALSE, graph |-> rg]

\* link_border_edge writing to a copy of the edge weight: the link is lost.
link_border_edge_lost(bg, rg, r) ==
    LET borders == At(rg.edges, r).weight.borders
    IN  IF Len(borders) # 2 THEN [panic |-> TRUE, graph |-> bg]
        ELSE [panic |-> ~find_edge_undirected(bg, At(borders, 0), At(borders, 1)).some,
              graph |-> bg]

\* Lines 411-419: pass C's body for region edge r.  "panic" is the assert
\* or the expect.
link_border_edge(bg, rg, r) ==
    LET borders == At(rg.edges, r).weight.borders
    IN  IF Len(borders) # 2 THEN [panic |-> TRUE, graph |-> bg]
        ELSE LET found == find_edge_undirected(bg, At(borders, 0), At(borders, 1))
             IN  IF ~found.some THEN [panic |-> TRUE, graph |-> bg]
                 ELSE [panic |-> FALSE,
                       graph |-> [bg EXCEPT !.edges[found.val + 1].weight.region_edge = Some(r)]]

\* ------------------------------------------------------------------ Init
Bounds == (-1)..MaxBound

NoWalk == [face |-> 0, region_node_idx |-> 0, curr_edge |-> 0, pos |-> Origin, num_edges |-> 0]

\* The state a call of gen_dual_graph starts in, its inputs given.
Entry ==
    /\ rng = seed
    /\ pc = "gp_loop"
    /\ points = <<>>
    /\ point = Origin
    /\ resamples = 0
    /\ i = 0
    /\ vor_diagram = EmptyDCEL
    /\ tess_calls = 0
    /\ centroid_calls = 0
    /\ region_graph = NewGraph
    /\ border_graph = NewGraph
    /\ region_node_map = NoMap
    /\ border_node_map = NoMap
    /\ walk = NoWalk
    /\ cursor = 0

InitWith(tessellators) ==
    /\ dims \in Bounds \X Bounds
    /\ num_points \in 0..MaxCount
    /\ num_lloyd_iterations \in 0..MaxLloyd
    /\ seed \in 0..MaxSeed
    /\ tess \in tessellators
    /\ tie \in {"keep", "swap"}
    /\ first = None
    /\ Entry

Init == InitWith({"strip", "fan"})

InitAny == InitWith({"strip", "fan", "ring"})

\* ------------------------------------------------------------ gen_points
\* Lines 107-112: the for loop draws the next candidate.
GenPointsDraw ==
    /\ pc = "gp_loop"
    /\ Len(points) < num_points
    /\ point' = DrawPoint(rng, dims)
    /\ rng' = AfterDraw(rng)
    /\ resamples' = 0
    /\ pc' = "gp_while"
    /\ UNCHANGED <<inputs, points, gvvars, dgvars, first>>

\* Lines 114-120: the candidate collides and is drawn again.
GenPointsResample ==
    /\ pc = "gp_while"
    /\ contains(point, points)
    /\ point' = DrawPoint(rng, dims)
    /\ rng' = AfterDraw(rng)
    /\ resamples' = IF resamples <= RetryBudget THEN resamples + 1 ELSE resamples
    /\ UNCHANGED <<inputs, points, pc, gvvars, dgvars, first>>

\* Line 121: the candidate is kept.
GenPointsPush ==
    /\ pc = "gp_while"
    /\ ~contains(point, points)
    /\ points' = Append(points, point)
    /\ pc' = "gp_loop"
    /\ UNCHANGED <<inputs, rng, point, resamples, gvvars, dgvars, first>>

\* Lines 124-138: sort, nudge and return to gen_voronoi (line 244).
GenPointsReturn ==
    /\ pc = "gp_loop"
    /\ Len(points) = num_points
    /\ points' = NudgeLast(SortByY(points, tie))
    /\ pc' = "gv_loop"
    /\ UNCHANGED <<inputs, rng, point, resamples, gvvars, dgvars, first>>

\* ----------------------------------------------------------- gen_voronoi
\* GenVoronoiTessellate as the head of a while loop: the exit test comes
\* before the tessellation, so the last tessellation is never made.
GenVoronoiTessellate_test_first ==
    /\ pc = "gv_loop"
    /\ IF i = num_lloyd_iterations
       THEN /\ pc' = "dg_new"
            /\ UNCHANGED <<vor_diagram, tess_calls>>
       ELSE /\ vor_diagram' = voronoi(points, dims[1], tess)
            /\ tess_calls' = tess_calls + 1
            /\ pc' = "gv_centroids"
    /\ UNCHANGED <<inputs, gpvars, i, centroid_calls, dgvars, first>>

\* Lines 249-252: tessellate; leave the loop after the last iteration.
GenVoronoiTessellate ==
    /\ pc = "gv_loop"
    /\ vor_diagram' = voronoi(points, dims[1], tess)
    /\ tess_calls' = tess_calls + 1
    /\ pc' = IF i = num_lloyd_iterations THEN "dg_new" ELSE "gv_centroids"
    /\ UNCHANGED <<inputs, gpvars, i, centroid_calls, dgvars, first>>

\* Lines 253-254: the sites move to the centroids.
GenVoronoiCentroids ==
    /\ pc = "gv_centroids"
    /\ points' = poly_centroids(vor_diagram)
    /\ i' = i + 1
    /\ centroid_calls' = centroid_calls + 1
    /\ pc' = "gv_loop"
    /\ UNCHANGED <<inputs, rng, point, resamples, vor_diagram, tess_calls, dgvars, first>>

\* -------------------------------------------------------- gen_dual_graph
\* Lines 324-327: the graphs and the two maps.  Each HashMap::new() takes
\* the thread's next RandomState.
DualGraphNew ==
    /\ pc = "dg_new"
    /\ \E h \in HashStates :
          /\ border_node_map' = NewHashMap(h)
          /\ region_node_map' = NewHashMap(h + 1)
    /\ region_graph' = NewGraph
    /\ border_graph' = NewGraph
    /\ walk' = NoWalk
    /\ pc' = "dg_faces"
    /\ UNCHANGED <<inputs, gpvars, gvvars, cursor, first>>

\* Lines 328-344: the next bounded face and its region node.
PassAFace ==
    /\ pc = "dg_faces"
    /\ walk.face < NumBoundedFaces(vor_diagram)
    /\ LET r == get_or_insert_region_node(region_node_map, region_graph, Origin,
                                          FaceAt(walk.face))
       IN  /\ region_node_map' = r.map
           /\ region_graph' = r.graph
           /\ walk' = [face |-> walk.face,
                       region_node_idx |-> r.idx,
                       curr_edge |-> At(vor_diagram.faces, FaceAt(walk.face)).outer_component,
                       pos |-> Origin,
                       num_edges |-> 0]
    /\ pc' = "dg_walk"
    /\ UNCHANGED <<inputs, gpvars, gvvars, border_graph, border_node_map, cursor, first>>

\* Lines 345-386: one turn of the ring walk.
PassAStep ==
    /\ pc = "dg_walk"
    /\ LET s == walk_step(walk, vor_diagram, region_graph, border_graph, border_node_map)
       IN  /\ region_graph' = s.region_graph
           /\ border_graph' = s.border_graph
           /\ border_node_map' = s.border_node_map
           /\ walk' = IF s.closed THEN [s.walk EXCEPT !.face = @ + 1] ELSE s.walk
           /\ pc' = IF s.closed THEN "dg_faces" ELSE "dg_walk"
    /\ UNCHANGED <<inputs, gpvars, gvvars, region_node_map, cursor, first>>

\* Line 387: the faces are exhausted.
PassADone ==
    /\ pc = "dg_faces"
    /\ walk.face = NumBoundedFaces(vor_diagram)
    /\ cursor' = 0
    /\ pc' = "dg_borders"
    /\ UNCHANGED <<inputs, gpvars, gvvars, region_graph, border_graph,
                   region_node_map, border_node_map, walk, first>>

\* Lines 389-408: pass B at the next border edge.
PassBEdge ==
    /\ pc = "dg_borders"
    /\ cursor < edge_count(border_graph)
    /\ LET r == region_edge_for(region_graph, border_graph, cursor)
       IN  /\ region_graph' = r.graph
           /\ pc' = IF r.panic THEN "panic" ELSE "dg_borders"
    /\ cursor' = cursor + 1
    /\ UNCHANGED <<inputs, gpvars, gvvars, border_graph, region_node_map,
                   border_node_map, walk, first>>

\* Line 409: the border edges are exhausted.
PassBDone ==
    /\ pc = "dg_borders"
    /\ cursor = edge_count(border_graph)
    /\ cursor' = 0
    /\ pc' = "dg_regions"
    /\ UNCHANGED <<inputs, gpvars, gvvars, region_graph, border_graph,
                   region_node_map, border_node_map, walk, first>>

\* Lines 410-420: pass C at the next region edge.
PassCEdge ==
    /\ pc = "dg_regions"
    /\ cursor < edge_count(region_graph)
    /\ LET r == link_border_edge(border_graph, region_graph, cursor)
       IN  /\ border_graph' = r.graph
           /\ pc' = IF r.panic THEN "panic" ELSE "dg_regions"
    /\ cursor' = cursor + 1
    /\ UNCHANGED <<inputs, gpvars, gvvars, region_graph, region_node_map,
                   border_node_map, walk, first>>

\* Line 421: the graphs are returned.
PassCDone ==
    /\ pc = "dg_regions"
    /\ cursor = edge_count(region_graph)
    /\ pc' = "done"
    /\ UNCHANGED <<inputs, gpvars, gvvars, dgvars, first>>

\* examples/gui_tool.rs, GuiState::gen_dual_graph: "Generate" pressed again
\* with the settings unchanged reseeds the PRNG from the same seed string
\* and runs the pipeline once more.
Regenerate ==
    /\ pc = "done"
    /\ ~first.some
    /\ UNCHANGED inputs
    /\ first' = Some([region_graph |-> region_graph, border_graph |-> border_graph,
                      rng |-> rng, hash |-> border_node_map.state])
    /\ rng' = seed
    /\ pc' = "gp_loop"
    /\ points' = <<>>
    /\ point' = Origin
    /\ resamples' = 0
    /\ i' = 0
    /\ vor_diagram' = EmptyDCEL
    /\ tess_calls' = 0
    /\ centroid_calls' = 0
    /\ region_graph' = NewGraph
    /\ border_graph' = NewGraph
    /\ region_node_map' = NoMap
    /\ border_node_map' = NoMap
    /\ walk' = NoWalk
    /\ cursor' = 0

Next ==
    \/ GenPointsDraw
    \/ GenPointsResample
    \/ GenPointsPush
    \/ GenPointsReturn
    \/ GenVoronoiTessellate
    \/ GenVoronoiCentroids
    \/ DualGraphNew
    \/ PassAFace
    \/ PassAStep
    \/ PassADone
    \/ PassBEdge
    \/ PassBDone
    \/ PassCEdge
    \/ PassCDone

Spec == Init /\ [][Next]_vars

\* gen_dual_graph against any closed-ring DCEL.
SpecAny == InitAny /\ [][Next]_vars

\* Two runs from the same settings and seed.
NextTwice == Next \/ Regenerate

SpecTwice == Init /\ [][NextTwice]_vars

\* gen_voronoi runs on one thread that is not suspended for ever, and the
\* calls it makes at lines 249 and 253 return: the thread does not stay at
\* the head of the loop, nor at the centroid extraction, for ever.
LoopHeadLeft == pc = "gv_loop" /\ pc' \in {"gv_centroids", "dg_new"}

CentroidsLeft == pc = "gv_centroids" /\ pc' = "gv_loop"

SpecFair == Init /\ [][Next]_vars /\ WF_pc(LoopHeadLeft) /\ WF_pc(CentroidsLeft)

\* ------------------------------------------- poly_centroids on its own
\* poly_centroids takes any voronoi::DCEL.  Here it is applied to the
\* tessellators' diagrams with the liveness flags of each face's halfedges
\* set one of three ways: all as tessellated ("live"), the face's
\* outer_component dead ("clipped"), or every halfedge of the face dead
\* ("dead").
Sites(n, box) == [k \in 1..n |-> Point(Rat(box * k, n + 1), Rat(box * k, n + 1))]

FaceStates == {"live", "clipped", "dead"}

WithDead(diagram, states) ==
    [diagram EXCEPT !.halfedges =
        [h \in 1..Len(diagram.halfedges) |->
            LET edge == diagram.halfedges[h]
                st == At(states, edge.face)
                oc == At(diagram.faces, edge.face).outer_component
            IN  [edge EXCEPT !.alive =
                    /\ @
                    /\ st # "dead"
                    /\ ~(st = "clipped" /\ h - 1 = oc)]]]

InitCentroids ==
    /\ \E box \in 1..MaxBound : dims = <<box, box>>
    /\ num_points \in 1..MaxCount
    /\ num_lloyd_iterations = 1
    /\ seed = 0
    /\ tess \in {"strip", "fan"}
    /\ tie = "keep"
    /\ first = None
    /\ rng = seed
    /\ pc = "pc_call"
    /\ points = Sites(num_points, dims[1])
    /\ point = Origin
    /\ resamples = 0
    /\ i = 0
    /\ \E states \in [1..(num_points + 1) -> FaceStates] :
          vor_diagram = WithDead(voronoi(points, dims[1], tess), states)
    /\ tess_calls = 1
    /\ centroid_calls = 0
    /\ region_graph = NewGraph
    /\ border_graph = NewGraph
    /\ region_node_map = NoMap
    /\ border_node_map = NoMap
    /\ walk = NoWalk
    /\ cursor = 0

\* Lines 60-86: one call of poly_centroids(&vor_diagram).
PolyCentroidsCall ==
    /\ pc = "pc_call"
    /\ points' = poly_centroids(vor_diagram)
    /\ centroid_calls' = centroid_calls + 1
    /\ pc' = "pc_done"
    /\ UNCHANGED <<inputs, rng, point, resamples, i, vor_diagram, tess_calls, dgvars, first>>

SpecCentroids == InitCentroids /\ [][PolyCentroidsCall]_vars

\* ----------------------------------------------------- reading the state
Range(s) == {s[k] : k \in 1..Len(s)}

RegionEdges == 0..(edge_count(region_graph) - 1)

BorderEdges == 0..(edge_count(border_graph) - 1)

RegionNodes == 0..(node_count(region_graph) - 1)

BorderNodes == 0..(node_count(border_graph) - 1)

Ends(edge) == {edge.source, edge.target}

\* gen_dual_graph has returned its pair of graphs.
Returned == pc = "done"

\* gen_points has just returned `points` to gen_voronoi.
Sampled == pc = "gv_loop" /\ i = 0

\* C1: on returned graphs every region edge r has border_edge = Some(b),
\* and b's regions are exactly r's two endpoints and b.region_edge = Some(r).
C1_RegionEdgeHasDual ==
    Returned =>
        \A r \in RegionEdges :
            LET re == At(region_graph.edges, r)
            IN  /\ re.weight.border_edge.some
                /\ re.weight.border_edge.val \in BorderEdges
                /\ LET b == At(border_graph.edges, re.weight.border_edge.val)
                   IN  /\ Range(b.weight.regions) = Ends(re)
                       /\ b.weight.region_edge = Some(r)

\* C1 witness: graphs returned with at least two region edges.
C1_Witness == Returned /\ edge_count(region_graph) >= 2

\* C2: on returned graphs the border edges with two regions correspond one
\* to one to the region edges: each has region_edge = Some(r), r is the
\* only region edge between its two regions, r.border_edge points back, and
\* the two counts agree.
C2_InteriorEdgesBijective ==
    Returned =>
        LET interior == {b \in BorderEdges : Len(At(border_graph.edges, b).weight.regions) = 2}
        IN  /\ \A b \in interior :
                  LET be == At(border_graph.edges, b)
                  IN  /\ be.weight.region_edge.some
                      /\ be.weight.region_edge.val \in RegionEdges
                      /\ LET r == be.weight.region_edge.val
                         IN  /\ Ends(At(region_graph.edges, r)) = Range(be.weight.regions)
                             /\ At(region_graph.edges, r).weight.border_edge = Some(b)
                             /\ \A q \in RegionEdges :
                                    Ends(At(region_graph.edges, q)) = Range(be.weight.regions)
                                        => q = r
            /\ \A r \in RegionEdges :
                  \E b \in interior : At(border_graph.edges, b).weight.region_edge = Some(r)
            /\ Cardinality(RegionEdges) = Cardinality(interior)

\* C2 witness: graphs returned with at least two interior border edges.
C2_Witness ==
    /\ Returned
    /\ Cardinality({b \in BorderEdges :
                      Len(At(border_graph.edges, b).weight.regions) = 2}) >= 2

\* C3 as claimed: on returned graphs a border node is in a region's borders
\* exactly when the region is in the border node's regions.
C3_IncidenceSymmetry ==
    Returned =>
        \A R \in RegionNodes : \A B \in BorderNodes :
            (B \in Range(At(region_graph.nodes, R).borders))
                <=> (R \in Range(At(border_graph.nodes, B).regions))

NoParallelEdges(g) ==
    \A e1, e2 \in 0..(edge_count(g) - 1) :
        Ends(At(g.edges, e1)) = Ends(At(g.edges, e2)) => e1 = e2

\* C4: at every point of the construction, and after it, neither graph has
\* two edges between the same unordered pair of nodes.
C4_NoParallelEdges == NoParallelEdges(region_graph) /\ NoParallelEdges(border_graph)

\* C4 witness: pass A is walking a face and a segment has already been
\* visited from both of its faces.
C4_Witness ==
    /\ pc = "dg_walk"
    /\ \E b \in BorderEdges : Len(At(border_graph.edges, b).weight.regions) = 2

RECURSIVE SumBorderPos(_)
SumBorderPos(borders) ==
    IF borders = <<>> THEN Origin
    ELSE LET rest == SumBorderPos(SubSeq(borders, 1, Len(borders) - 1))
             p == At(border_graph.nodes, borders[Len(borders)]).pos
         IN  Point(RAdd(rest.x, p.x), RAdd(rest.y, p.y))

\* C5: on returned graphs every region's pos times the number of its
\* borders is the sum of the positions of those border nodes.
C5_CentroidLaw ==
    Returned =>
        \A R \in RegionNodes :
            LET node == At(region_graph.nodes, R)
                n == Rat(Len(node.borders), 1)
                sum == SumBorderPos(node.borders)
            IN  /\ Len(node.borders) > 0
                /\ ~IsNaN(node.pos.x) /\ ~IsNaN(node.pos.y)
                /\ RMul(node.pos.x, n) = sum.x
                /\ RMul(node.pos.y, n) = sum.y

\* C5 witness: a returned region with three or more borders whose centroid
\* is not a vertex coordinate.
C5_Witness ==
    /\ Returned
    /\ \E R \in RegionNodes :
          LET node == At(region_graph.nodes, R)
          IN  /\ Len(node.borders) >= 3
              /\ node.pos.x.d > 1
              /\ node.pos.y.d > 1

\* C6: a second run from the same settings and PRNG state returns the same
\* graphs and leaves the PRNG in the same state as the first.
C6_Deterministic ==
    (Returned /\ first.some) =>
        /\ first.val.region_graph = region_graph
        /\ first.val.border_graph = border_graph
        /\ first.val.rng = rng

\* C6 witness: a second run has returned non-empty graphs built with maps
\* of another RandomState than the first run's.
C6_Witness ==
    /\ Returned
    /\ first.some
    /\ first.val.hash # border_node_map.state
    /\ node_count(region_graph) >= 2
    /\ edge_count(region_graph) >= 1

\* C7 as claimed: for positive bounds gen_points returns exactly count
\* points, each inside [0, bounds.x) x [0, bounds.y).
C7_PointsInDomain ==
    (Sampled /\ dims[1] > 0 /\ dims[2] > 0) =>
        /\ Len(points) = num_points
        /\ \A k \in 1..Len(points) :
              /\ RLe(Rat(0, 1), points[k].x) /\ RLt(points[k].x, Rat(dims[1], 1))
              /\ RLe(Rat(0, 1), points[k].y) /\ RLt(points[k].y, Rat(dims[2], 1))

C9_BoundedRetries == (dims[1] > 0 /\ dims[2] > 0) => resamples <= RetryBudget

InvalidDomain == num_points > 0 /\ (dims[1] <= 0 \/ dims[2] <= 0)

\* C10 as claimed: with count > 0 and a non-positive bound the sampler
\* returns no points, the tessellator is never called and no graphs are
\* returned.
C10_InvalidDomainRejected ==
    InvalidDomain =>
        /\ pc \in {"gp_loop", "gp_while"}
        /\ tess_calls = 0

\* gen_voronoi has left its loop and handed vor_diagram to gen_dual_graph.
LloydReturned == pc \in {"dg_new", "dg_faces", "dg_walk", "dg_borders", "dg_regions", "done", "panic"}

\* The numbers of voronoi() and poly_centroids() calls at each position of
\* gen_voronoi, and the diagram it holds.
LloydCounts ==
    /\ centroid_calls = i
    /\ i <= num_lloyd_iterations
    /\ pc \in {"gp_loop", "gp_while"} => tess_calls = 0 /\ i = 0
    /\ pc = "gv_loop" => tess_calls = i
    /\ pc = "gv_centroids" =>
           /\ tess_calls = i + 1
           /\ vor_diagram = voronoi(points, dims[1], tess)
    /\ LloydReturned =>
           /\ tess_calls = num_lloyd_iterations + 1
           /\ centroid_calls = num_lloyd_iterations
           /\ vor_diagram = voronoi(points, dims[1], tess)

\* Once gen_points has returned, the PRNG is left alone, the sites change
\* only by a centroid extraction, and sampling is not entered again.
AfterSampling ==
    pc \notin {"gp_loop", "gp_while"} =>
        /\ rng' = rng
        /\ pc' \notin {"gp_loop", "gp_while"}
        /\ points' # points => centroid_calls' = centroid_calls + 1

\* C11: gen_voronoi samples once, then makes exactly L+1 voronoi() calls
\* alternating with exactly L poly_centroids() calls, the first and the
\* last call being voronoi(); once the points are sampled the loop
\* terminates and the diagram returned is the tessellation of the sites
\* last computed (for L = 0 the sampled points, with no centroid
\* extraction); the PRNG is not advanced after the sampling.
C11_LloydLoop ==
    /\ []LloydCounts
    /\ [][AfterSampling]_vars
    /\ (Sampled ~> LloydReturned)

C11_Witness ==
    /\ pc = "dg_new"
    /\ num_lloyd_iterations >= 1
    /\ num_points >= 2
    /\ centroid_calls = num_lloyd_iterations
    /\ tess_calls = num_lloyd_iterations + 1

\* next applied k times to halfedge h.
RECURSIVE NextK(_, _, _)
NextK(diagram, h, k) ==
    IF k = 0 THEN h ELSE At(diagram.halfedges, NextK(diagram, h, k - 1)).next

\* The number of halfedges of face f's ring.
RingLen(diagram, f) ==
    LET oc == At(diagram.faces, f).outer_component
    IN  CHOOSE n \in 1..Len(diagram.halfedges) :
            /\ NextK(diagram, oc, n) = oc
            /\ \A m \in 1..(n - 1) : NextK(diagram, oc, m) # oc

\* Face f's region lists one border node per halfedge of f's ring, entry k
\* being the border node of origin(next^(k + shift)(outer_component)), and
\* cyclically consecutive entries are joined by a border edge.
RingBorders(f, shift) ==
    LET oc == At(vor_diagram.faces, f).outer_component
        n == RingLen(vor_diagram, f)
        borders == At(region_graph.nodes, map_get(region_node_map, f).val).borders
    IN  /\ Len(borders) = n
        /\ \A k \in 0..(n - 1) :
              LET h == NextK(vor_diagram, oc, k + shift)
              IN  /\ At(borders, k) =
                        map_get(border_node_map, At(vor_diagram.halfedges, h).origin).val
                  /\ find_edge_undirected(border_graph, At(borders, k),
                                          At(borders, (k + 1) % n)).some

\* C12 as claimed: on returned graphs each region's borders is its face's
\* ring in next order starting at outer_component, borders[k] being the
\* border node of origin(next^k(outer_component)).
C12_BordersFromOuterComponent ==
    Returned => \A f \in 0..(NumBoundedFaces(vor_diagram) - 1) : RingBorders(f, 0)

\* C12 amended: on returned graphs each region's borders has one entry
\* per halfedge of its face's ring, borders[k] being the border node of
\* origin(next^(k+1)(outer_component)), the vertex halfedge
\* next^k(outer_component) ends at; the last entry is the border node of
\* origin(outer_component), and cyclically consecutive entries are joined
\* by a border edge.
C12_BordersFromNext ==
    Returned => \A f \in 0..(NumBoundedFaces(vor_diagram) - 1) : RingBorders(f, 1)

\* C12 witness: returned graphs with two or more regions, one of them over
\* a ring of three or more halfedges whose first border is not the border
\* node of origin(outer_component).
C12_Witness ==
    /\ Returned
    /\ NumBoundedFaces(vor_diagram) >= 2
    /\ \E f \in 0..(NumBoundedFaces(vor_diagram) - 1) :
          LET oc == At(vor_diagram.faces, f).outer_component
              borders == At(region_graph.nodes, map_get(region_node_map, f).val).borders
          IN  /\ RingLen(vor_diagram, f) >= 3
              /\ At(borders, 0) # map_get(border_node_map, At(vor_diagram.halfedges, oc).origin).val

\* The live halfedges of face f.
LiveHalfedges(diagram, f) ==
    {h \in 0..(Len(diagram.halfedges) - 1) :
        At(diagram.halfedges, h).alive /\ At(diagram.halfedges, h).face = f}

\* The faces other than the last that have a live halfedge, in face order.
RECURSIVE FacesWithLive(_, _)
FacesWithLive(diagram, k) ==
    IF k = 0 THEN <<>>
    ELSE LET rest == FacesWithLive(diagram, k - 1)
         IN  IF LiveHalfedges(diagram, k - 1) # {} THEN Append(rest, k - 1) ELSE rest

\* The sum of the origins' coordinates over a set of halfedges.
RECURSIVE SumOrigins(_, _)
SumOrigins(diagram, H) ==
    IF H = {} THEN Origin
    ELSE LET h == CHOOSE x \in H : TRUE
             rest == SumOrigins(diagram, H \ {h})
             pt == At(diagram.vertices, At(diagram.halfedges, h).origin).coordinates
         IN  Point(RAdd(rest.x, pt.x), RAdd(rest.y, pt.y))

\* C13 as claimed: poly_centroids returns one point, in face order, for
\* exactly the faces other than the last that have a live halfedge, each
\* the mean of the origins of the face's live halfedges; a face with no
\* live halfedge contributes no point and no point is NaN.
C13_ZeroCountSkipped ==
    pc = "pc_done" =>
        LET kept == FacesWithLive(vor_diagram, Len(vor_diagram.faces) - 1)
        IN  /\ Len(points) = Len(kept)
            /\ \A k \in 1..Len(points) :
                  /\ ~IsNaN(points[k].x) /\ ~IsNaN(points[k].y)
                  /\ k <= Len(kept) =>
                        LET H == LiveHalfedges(vor_diagram, kept[k])
                            sum == SumOrigins(vor_diagram, H)
                            n == Rat(Cardinality(H), 1)
                        IN  /\ RMul(points[k].x, n) = sum.x
                            /\ RMul(points[k].y, n) = sum.y

=============================================================================
